---- MODULE Spec2Model ----
(***************************************************************************)
(* A model of the catalog application of django_local_library: the two     *)
(* renewal-date validators of catalog/forms.py and the views of            *)
(* catalog/views.py (home page, loan listings, librarian renewal, and the  *)
(* permission-gated create/update/delete views for Author and Book).       *)
(*                                                                         *)
(* Dates are day ordinals (integers); datetime.timedelta(weeks=n) is 7*n   *)
(* days.  A request is handled in one step (a synchronous view); only the  *)
(* specification SpecOverlap splits the home view at the point where the   *)
(* session is read and where it is saved, to let requests overlap.         *)
(***************************************************************************)
EXTENDS Integers, Sequences, FiniteSets, TLC

VARIABLES
    today,      \* datetime.date.today(), a day ordinal
    instances,  \* BookInstance table: pk -> [due_back, status, borrower]
    authors,    \* Author table: pk -> field values
    books,      \* Book table: pk -> field values
    genres,     \* Genre table: pk -> name
    session,    \* session store: session key -> dict (a function on keys)
    cleaned,    \* the last run of a clean_<field> method, with its input
    response,   \* the last response produced by a view, with its request
    calls       \* home-view calls in flight (SpecOverlap only)

vars == <<today, instances, authors, books, genres, session, cleaned, response, calls>>

-----------------------------------------------------------------------------
(* Bounds of the model *)

\* today ranges over 1..MaxToday
MaxToday == 2
\* the home view is called while num_visits is below MaxVisits
MaxVisits == 3
\* due-back dates of the initial BookInstance table range over 1..MaxDue
MaxDue == 2
\* number of overlapping home-view calls
NumCalls == 3

-----------------------------------------------------------------------------
(* Dates *)

\* BookInstance.due_back is nullable: None is the day ordinal -1
NoDate == -1

\* datetime.timedelta(weeks=n), in days
timedelta(weeks) == 7 * weeks

\* weeks=4 in both validators
RenewalWeeks == 4

\* the proposed date computed with the validators' four weeks
ProposedWeeksAsRenewalWeeks == RenewalWeeks

\* weeks=3 in renew_book_librarian
ProposedWeeks == 3

\* the dates a form can be handed
MaxDate == MaxToday + timedelta(RenewalWeeks) + 2
Dates == 0..MaxDate

-----------------------------------------------------------------------------
(* catalog/forms.py *)

Cleaned(outcome, value, rule, message) ==
    [outcome |-> outcome, value |-> value, rule |-> rule, message |-> message]

\* clean_renewal_date with the three weeks of the proposed date as its limit
clean_renewal_date_three_weeks(data, now) ==
    IF data = NoDate
    THEN Cleaned("TypeError", NoDate, "none", "")
    ELSE IF data < now
    THEN Cleaned("ValidationError", NoDate, "past", "Invalid data - renewal in past")
    ELSE IF data > now + timedelta(ProposedWeeks)
    THEN Cleaned("ValidationError", NoDate, "ahead",
                 "Invalid data - renewal data more than 4 weeks ahead")
    ELSE Cleaned("ok", data, "none", "")

\* RenewBookForm.clean_renewal_date, with data = cleaned_data['renewal_date'].
\* Comparing None with a date raises TypeError.
clean_renewal_date(data, now) ==
    IF data = NoDate
    THEN Cleaned("TypeError", NoDate, "none", "")
    ELSE IF data < now
    THEN Cleaned("ValidationError", NoDate, "past", "Invalid data - renewal in past")
    ELSE IF data > now + timedelta(RenewalWeeks)
    THEN Cleaned("ValidationError", NoDate, "ahead",
                 "Invalid data - renewal data more than 4 weeks ahead")
    ELSE Cleaned("ok", data, "none", "")

\* clean_due_back with >= for > in the second check
clean_due_back_inclusive_limit(data, now) ==
    IF data = NoDate
    THEN Cleaned("TypeError", NoDate, "none", "")
    ELSE IF data < now
    THEN Cleaned("ValidationError", NoDate, "past", "Invalid date - renewal in past")
    ELSE IF data >= now + timedelta(RenewalWeeks)
    THEN Cleaned("ValidationError", NoDate, "ahead",
                 "Invalid date - renewal more than 4 weeks ahead")
    ELSE Cleaned("ok", data, "none", "")

\* clean_due_back without its first check
clean_due_back_no_past_check(data, now) ==
    IF data = NoDate
    THEN Cleaned("TypeError", NoDate, "none", "")
    ELSE IF data > now + timedelta(RenewalWeeks)
    THEN Cleaned("ValidationError", NoDate, "ahead",
                 "Invalid date - renewal more than 4 weeks ahead")
    ELSE Cleaned("ok", data, "none", "")

\* RenewBookModelForm.clean_due_back, with data = cleaned_data['due_back'].
clean_due_back(data, now) ==
    IF data = NoDate
    THEN Cleaned("TypeError", NoDate, "none", "")
    ELSE IF data < now
    THEN Cleaned("ValidationError", NoDate, "past", "Invalid date - renewal in past")
    ELSE IF data > now + timedelta(RenewalWeeks)
    THEN Cleaned("ValidationError", NoDate, "ahead",
                 "Invalid date - renewal more than 4 weeks ahead")
    ELSE Cleaned("ok", data, "none", "")

\* BookInstance.due_back accepts blank input (the model declares it nullable),
\* so the ModelForm's due_back field is not required.
BookInstance_due_back_blank == TRUE

\* What a date field is handed: nothing, text that is no date, or a date.
Blank == [kind |-> "blank", date |-> NoDate]
NotADate == [kind |-> "invalid", date |-> NoDate]
DateText(d) == [kind |-> "date", date |-> d]

\* forms.DateField.clean: a blank value is an error when the field is required
\* and None otherwise; text that parses under no input format is an error.
DateField_clean(raw, required) ==
    IF raw.kind = "blank"
    THEN IF required
         THEN [ok |-> FALSE, value |-> NoDate, message |-> "This field is required."]
         ELSE [ok |-> TRUE, value |-> NoDate, message |-> ""]
    ELSE IF raw.kind = "invalid"
    THEN [ok |-> FALSE, value |-> NoDate, message |-> "Enter a valid date."]
    ELSE [ok |-> TRUE, value |-> raw.date, message |-> ""]

FormResult(outcome, cleaned_data, errors) ==
    [outcome |-> outcome, cleaned_data |-> cleaned_data, errors |-> errors]

\* RenewBookModelForm(request.POST).is_valid(): the field's own clean, then
\* clean_due_back on its value; only a ValidationError becomes a form error,
\* any other exception leaves the form (and the view) by propagating.
RenewBookModelForm_is_valid(raw, now) ==
    LET field == DateField_clean(raw, ~BookInstance_due_back_blank)
        c == clean_due_back(field.value, now)
    IN  IF ~field.ok
        THEN FormResult("invalid", NoDate, {field.message})
        ELSE IF c.outcome = "TypeError"
        THEN FormResult("TypeError", NoDate, {})
        ELSE IF c.outcome = "ValidationError"
        THEN FormResult("invalid", NoDate, {c.message})
        ELSE FormResult("valid", c.value, {})

\* RenewBookForm(data).is_valid(): renewal_date is a required forms.DateField.
RenewBookForm_is_valid(raw, now) ==
    LET field == DateField_clean(raw, TRUE)
        c == clean_renewal_date(field.value, now)
    IN  IF ~field.ok
        THEN FormResult("invalid", NoDate, {field.message})
        ELSE IF c.outcome = "TypeError"
        THEN FormResult("TypeError", NoDate, {})
        ELSE IF c.outcome = "ValidationError"
        THEN FormResult("invalid", NoDate, {c.message})
        ELSE FormResult("valid", c.value, {})

-----------------------------------------------------------------------------
(* The validators on their own: SpecForms *)

NotRun == [ran |-> FALSE, data |-> NoDate, at |-> 0,
           result |-> Cleaned("none", NoDate, "none", "")]

Ran(data, now, result) == [ran |-> TRUE, data |-> data, at |-> now, result |-> result]

\* clean_renewal_date is reached only with a date: the field is required.
CleanRenewalDate ==
    /\ \E data \in Dates :
          cleaned' = [cleaned EXCEPT
                        !.renewal_date = Ran(data, today, clean_renewal_date(data, today))]
    /\ UNCHANGED <<today, instances, authors, books, genres, session, response, calls>>

\* clean_due_back is reached with a date, or with None when the field was blank.
CleanDueBack ==
    /\ \E data \in Dates \cup {NoDate} :
          cleaned' = [cleaned EXCEPT
                        !.due_back = Ran(data, today, clean_due_back(data, today))]
    /\ UNCHANGED <<today, instances, authors, books, genres, session, response, calls>>

-----------------------------------------------------------------------------
(* Actors and the two gates of catalog/views.py *)

CanMarkReturned == "catalog.can_mark_returned"
CanEdit == "catalog.can_edit"
Perms == {CanMarkReturned, CanEdit}

NoUser == "nobody"
Actor(name, perms) == [is_authenticated |-> TRUE, name |-> name, perms |-> perms]
Anonymous == [is_authenticated |-> FALSE, name |-> NoUser, perms |-> {}]

\* request.user of the gated views: nobody, or a user with any set of permissions
GateActors == {Anonymous} \cup {Actor("u1", P) : P \in SUBSET Perms}

has_perm(user, perm) == perm \in user.perms

\* has_perms satisfied by any one of the permissions
has_perms_any(user, perm_list) == \E perm \in perm_list : has_perm(user, perm)

\* user.has_perms(perm_list): every one of them
has_perms(user, perm_list) == \A perm \in perm_list : has_perm(user, perm)

\* the two decorators in the other order: the permission is checked first
permission_required_login_required(user, perm) ==
    IF ~has_perm(user, perm) THEN "forbidden"
    ELSE IF ~user.is_authenticated THEN "login"
    ELSE "pass"

\* @login_required over @permission_required(perm, raise_exception=True):
\* the outer decorator runs first and redirects to the login page; the inner
\* one raises PermissionDenied.
login_required_permission_required(user, perm) ==
    IF ~user.is_authenticated THEN "login"
    ELSE IF ~has_perm(user, perm) THEN "forbidden"
    ELSE "pass"

\* LoginRequiredMixin.dispatch
LoginRequiredMixin(user) ==
    IF ~user.is_authenticated THEN "login" ELSE "pass"

\* PermissionRequiredMixin.dispatch with permission_required a tuple:
\* has_permission() is user.has_perms(...); handle_no_permission() raises
\* PermissionDenied for an authenticated user, else redirects to the login page.
PermissionRequiredMixin(user, permission_required) ==
    IF has_perms(user, permission_required) THEN "pass"
    ELSE IF user.is_authenticated THEN "forbidden"
    ELSE "login"

-----------------------------------------------------------------------------
(* Requests and responses *)

NoBody == [kind |-> "none"]
NoLocation == [to |-> "", next |-> ""]

Response(request, status, location, body) ==
    [request |-> request, status |-> status, location |-> location, body |-> body]

NoResponse == Response([view |-> "none"], "none", NoLocation, NoBody)

\* what a gate that did not pass answers: the login page with the requested
\* destination in ?next=, or 403 (PermissionDenied)
Refused(request, gate) ==
    IF gate = "login"
    THEN Response(request, "redirect", [to |-> "login", next |-> request.view], NoBody)
    ELSE Response(request, "forbidden", NoLocation, NoBody)

NotFound(request) == Response(request, "not_found", NoLocation, NoBody)

Redirect(request, to) ==
    Response(request, "redirect", [to |-> to, next |-> ""], NoBody)

\* an exception that no handler catches: the server's error response
ServerError(request, exception) ==
    Response(request, "server_error", NoLocation, [kind |-> exception])

-----------------------------------------------------------------------------
(* renew_book_librarian *)

\* the primary keys a request can name: those of the table and one that is not
\* (the database numbers rows from 1)
RequestPks(table) == (DOMAIN table) \cup {0}

\* the dates submitted to the renewal form
SubmittedDates ==
    {today - 1, today, today + timedelta(ProposedWeeks),
     today + timedelta(RenewalWeeks), today + timedelta(RenewalWeeks) + 1}

RenewInputs == {Blank, NotADate} \cup {DateText(d) : d \in SubmittedDates}

RenewRequest(user, pk, method, data) ==
    [view |-> "renew_book_librarian", user |-> user, pk |-> pk,
     method |-> method, data |-> data, at |-> today]

\* render(request, 'catalog/book_renew_librarian.html', context)
RenewPage(request, bound, initial, errors) ==
    Response(request, "ok", NoLocation,
             [kind |-> "book_renew_librarian",
              form |-> [bound |-> bound,
                        data |-> IF bound THEN request.data ELSE Blank,
                        initial |-> initial,
                        errors |-> errors],
              book_instance |-> request.pk,
              today |-> today,
              proposed_renewal_date |-> today + timedelta(ProposedWeeks)])

renew_book_librarian(user, pk, method, data) ==
    LET request == RenewRequest(user, pk, method, data)
        gate == login_required_permission_required(user, CanMarkReturned)
        form == RenewBookModelForm_is_valid(data, today)
    IN  /\ IF gate # "pass"
           THEN /\ response' = Refused(request, gate)
                /\ UNCHANGED instances
           ELSE IF pk \notin DOMAIN instances
           THEN /\ response' = NotFound(request)
                /\ UNCHANGED instances
           ELSE IF method = "POST"
           THEN IF form.outcome = "valid"
                THEN /\ instances' = [instances EXCEPT ![pk].due_back = form.cleaned_data]
                     /\ response' = Redirect(request, "all-borrowed")
                ELSE IF form.outcome = "TypeError"
                THEN /\ response' = ServerError(request, "TypeError")
                     /\ UNCHANGED instances
                ELSE /\ response' = RenewPage(request, TRUE, NoDate, form.errors)
                     /\ UNCHANGED instances
           ELSE /\ response' = RenewPage(request, FALSE,
                                         today + timedelta(ProposedWeeks), {})
                /\ UNCHANGED instances
        /\ UNCHANGED <<today, authors, books, genres, session, cleaned, calls>>

RenewGet ==
    \E user \in GateActors, pk \in RequestPks(instances) :
        renew_book_librarian(user, pk, "GET", Blank)

RenewPost ==
    \E user \in GateActors, pk \in RequestPks(instances), data \in RenewInputs :
        renew_book_librarian(user, pk, "POST", data)

\* the date changes between requests
Tick ==
    /\ today < MaxToday
    /\ today' = today + 1
    /\ UNCHANGED <<instances, authors, books, genres, session, cleaned, response, calls>>

-----------------------------------------------------------------------------
(* The loan listings: LoanedBooksByUserListView, AllLoanedBooksByUsersListView *)

Row(status, borrower, due_back) ==
    [status |-> status, borrower |-> borrower, due_back |-> due_back]

\* QuerySet.filter(...): the primary keys of the rows a condition keeps
FilterBorrower(table, pks, user) == {pk \in pks : table[pk].borrower = user.name}
FilterStatus(table, pks, status) == {pk \in pks : table[pk].status = status}

\* The sort key of order_by('due_back'): where the rows without a date go is
\* the database's choice (first or last).
DueBackKey(table, pk, nulls_first) ==
    IF table[pk].due_back # NoDate THEN table[pk].due_back
    ELSE IF nulls_first THEN NoDate
    ELSE MaxDate + 1

RECURSIVE OrderBy(_, _, _)
\* QuerySet.order_by('due_back'): every listing of pks in ascending key order;
\* rows with equal keys come in an order the database chooses.
OrderBy(table, pks, nulls_first) ==
    IF pks = {} THEN {<<>>}
    ELSE UNION {
           {<<first>> \o rest : rest \in OrderBy(table, pks \ {first}, nulls_first)} :
           first \in {pk \in pks :
                        \A other \in pks :
                           DueBackKey(table, pk, nulls_first)
                              <= DueBackKey(table, other, nulls_first)}}

\* get_queryset without .filter(status__exact='o')
LoanedBooksByUser_any_status(table, user, nulls_first) ==
    OrderBy(table, FilterBorrower(table, DOMAIN table, user), nulls_first)

\* LoanedBooksByUserListView.get_queryset
LoanedBooksByUser_get_queryset(table, user, nulls_first) ==
    OrderBy(table,
            FilterStatus(table, FilterBorrower(table, DOMAIN table, user), "o"),
            nulls_first)

\* AllLoanedBooksByUsersListView.get_queryset
AllLoanedBooks_get_queryset(table, nulls_first) ==
    OrderBy(table, FilterStatus(table, DOMAIN table, "o"), nulls_first)

\* paginate_by = 3 in both loan listings
LoansPaginateBy == 3

\* Paginator.num_pages: an empty listing still has its first page
num_pages(count, per_page) ==
    IF count = 0 THEN 1 ELSE (count + per_page - 1) \div per_page

Min(a, b) == IF a < b THEN a ELSE b

\* Paginator.page(number).object_list
PageOf(object_list, number, per_page) ==
    SubSeq(object_list, (number - 1) * per_page + 1,
           Min(number * per_page, Len(object_list)))

\* the page numbers a request can name: those of the largest listing and one more
RequestPages(table) == 1..(num_pages(Cardinality(DOMAIN table), LoansPaginateBy) + 1)

\* MultipleObjectMixin.paginate_queryset and the rendered list: a page number
\* outside 1..num_pages is Http404.
ListPage(request, queryset, per_page) ==
    IF request.page \notin 1..num_pages(Len(queryset), per_page)
    THEN NotFound(request)
    ELSE Response(request, "ok", NoLocation,
                  [kind |-> "object_list",
                   paginator |-> [object_list |-> queryset,
                                  per_page |-> per_page,
                                  num_pages |-> num_pages(Len(queryset), per_page)],
                   object_list |-> PageOf(queryset, request.page, per_page)])

ListRequest(view, user, page) == [view |-> view, user |-> user, page |-> page]

\* request.user of the views that only ask for a login
LoginActors == {Anonymous, Actor("u1", {}), Actor("u2", {})}

LoanedBooksByUserListView ==
    /\ \E user \in LoginActors, page \in RequestPages(instances), nulls_first \in BOOLEAN :
          LET request == ListRequest("my-borrowed", user, page)
              gate == LoginRequiredMixin(user)
          IN  IF gate # "pass"
              THEN response' = Refused(request, gate)
              ELSE \E queryset \in LoanedBooksByUser_get_queryset(instances, user, nulls_first) :
                      response' = ListPage(request, queryset, LoansPaginateBy)
    /\ UNCHANGED <<today, instances, authors, books, genres, session, cleaned, calls>>

AllLoanedBooksByUsersListView ==
    /\ \E user \in GateActors, page \in RequestPages(instances), nulls_first \in BOOLEAN :
          LET request == ListRequest("all-borrowed", user, page)
              gate == PermissionRequiredMixin(user, {CanMarkReturned, CanEdit})
          IN  IF gate # "pass"
              THEN response' = Refused(request, gate)
              ELSE \E queryset \in AllLoanedBooks_get_queryset(instances, nulls_first) :
                      response' = ListPage(request, queryset, LoansPaginateBy)
    /\ UNCHANGED <<today, instances, authors, books, genres, session, cleaned, calls>>

-----------------------------------------------------------------------------
(* index: the home page *)

Sessions == {"s1", "s2"}

EmptyDict == [key \in {} |-> 0]

\* request.session.get(key, default)
session_get(dict, key, default) ==
    IF key \in DOMAIN dict THEN dict[key] ELSE default

\* request.session[key] = value
session_set(dict, key, value) ==
    [k \in (DOMAIN dict) \cup {key} |-> IF k = key THEN value ELSE dict[k]]

\* str.lower() on the genre names of the model
Lower(name) ==
    CASE name = "Fantasy" -> "fantasy"
      [] name = "FANTASY" -> "fantasy"
      [] OTHER -> name

\* filter(name__iexact=...)
FilterNameIExact(table, name) ==
    {pk \in DOMAIN table : Lower(table[pk]) = Lower(name)}

IndexRequest(user, sid) == [view |-> "index", user |-> user, session_key |-> sid]

\* render(request, 'index.html', context=context)
IndexPage(request, num_visits) ==
    Response(request, "ok", NoLocation,
             [kind |-> "index",
              num_books |-> Cardinality(DOMAIN books),
              num_instances |-> Cardinality(DOMAIN instances),
              num_instances_available |->
                  Cardinality(FilterStatus(instances, DOMAIN instances, "a")),
              num_authors |-> Cardinality(DOMAIN authors),
              authors |-> DOMAIN authors,
              num_genres |-> Cardinality(FilterNameIExact(genres, "fantasy")),
              num_visits |-> num_visits])

\* the value read stored back as it was
NextVisitsNotIncremented(num_visits) == num_visits

\* what index stores back into the session
NextVisits(num_visits) == num_visits + 1

index(user, sid) ==
    LET request == IndexRequest(user, sid)
        gate == login_required_permission_required(user, CanMarkReturned)
        num_visits == session_get(session[sid], "num_visits", 0)
    IN  /\ num_visits < MaxVisits
        /\ IF gate # "pass"
           THEN /\ response' = Refused(request, gate)
                /\ UNCHANGED session
           ELSE /\ session' = [session EXCEPT
                                 ![sid] = session_set(@, "num_visits", NextVisits(num_visits))]
                /\ response' = IndexPage(request, num_visits)
        /\ UNCHANGED <<today, instances, authors, books, genres, cleaned, calls>>

Index == \E user \in GateActors, sid \in Sessions : index(user, sid)

-----------------------------------------------------------------------------
(* Overlapping calls of index: the session is read at line 38 and the value *)
(* stored at line 39 reaches the session store when the response is made.  *)

Librarian == Actor("u1", {CanMarkReturned})

Call(pc, sid, num_visits) == [pc |-> pc, session_key |-> sid, num_visits |-> num_visits]

\* index up to num_visits = request.session.get('num_visits', 0)
IndexRead(c) ==
    /\ calls[c].pc = "start"
    /\ login_required_permission_required(Librarian, CanMarkReturned) = "pass"
    /\ calls' = [calls EXCEPT
                   ![c] = Call("read", @.session_key,
                               session_get(session[@.session_key], "num_visits", 0))]
    /\ UNCHANGED <<today, instances, authors, books, genres, session, cleaned, response>>

\* index from request.session['num_visits'] = num_visits + 1 to the response
IndexSave(c) ==
    /\ calls[c].pc = "read"
    /\ session' = [session EXCEPT
                     ![calls[c].session_key] =
                         session_set(@, "num_visits", NextVisits(calls[c].num_visits))]
    /\ response' = IndexPage(IndexRequest(Librarian, calls[c].session_key),
                             calls[c].num_visits)
    /\ calls' = [calls EXCEPT ![c].pc = "done"]
    /\ UNCHANGED <<today, instances, authors, books, genres, cleaned>>

-----------------------------------------------------------------------------
(* AuthorCreate .. BookDelete: the generic editing views *)

\* a table holds at most MaxRows rows
MaxRows == 1

\* permission_required of the six editing views and of the all-loans listing
EditPermissions == {CanMarkReturned, CanEdit}

\* the field values a form is submitted with: two that validate, one that does not
InvalidData == "invalid"
FormData == {"Alpha", "Beta", InvalidData}

EditRequest(view, user, pk, method, data) ==
    [view |-> view, user |-> user, pk |-> pk, method |-> method, data |-> data]

FormPage(request, errors) ==
    Response(request, "ok", NoLocation, [kind |-> "form", errors |-> errors])

\* the primary key the database gives a new row
NewPk(table) == CHOOSE pk \in 1..MaxRows :
                    /\ pk \notin DOMAIN table
                    /\ \A other \in 1..MaxRows : other \notin DOMAIN table => pk <= other

Insert(table, pk, row) ==
    [p \in (DOMAIN table) \cup {pk} |-> IF p = pk THEN row ELSE table[p]]

Delete(table, pk) == [p \in (DOMAIN table) \ {pk} |-> table[p]]

Outcome(table, resp) == [table |-> table, response |-> resp]

\* CreateView behind PermissionRequiredMixin: GET shows the form, a valid POST
\* saves a new object and redirects to it, an invalid one shows the errors.
CreateView(request, table, detail) ==
    LET gate == PermissionRequiredMixin(request.user, EditPermissions)
    IN  IF gate # "pass" THEN Outcome(table, Refused(request, gate))
        ELSE IF request.method # "POST" THEN Outcome(table, FormPage(request, {}))
        ELSE IF request.data = InvalidData
        THEN Outcome(table, FormPage(request, {"invalid"}))
        ELSE Outcome(Insert(table, NewPk(table), request.data), Redirect(request, detail))

\* UpdateView behind PermissionRequiredMixin: get_object() is Http404 for an
\* unknown pk; a valid POST saves the object and redirects to it.
UpdateView(request, table, detail) ==
    LET gate == PermissionRequiredMixin(request.user, EditPermissions)
    IN  IF gate # "pass" THEN Outcome(table, Refused(request, gate))
        ELSE IF request.pk \notin DOMAIN table THEN Outcome(table, NotFound(request))
        ELSE IF request.method # "POST" THEN Outcome(table, FormPage(request, {}))
        ELSE IF request.data = InvalidData
        THEN Outcome(table, FormPage(request, {"invalid"}))
        ELSE Outcome([table EXCEPT ![request.pk] = request.data],
                     Redirect(request, detail))

\* DeleteView behind PermissionRequiredMixin: GET asks for confirmation, POST
\* deletes the object and redirects to success_url.
DeleteView(request, table, success_url) ==
    LET gate == PermissionRequiredMixin(request.user, EditPermissions)
    IN  IF gate # "pass" THEN Outcome(table, Refused(request, gate))
        ELSE IF request.pk \notin DOMAIN table THEN Outcome(table, NotFound(request))
        ELSE IF request.method # "POST" THEN Outcome(table, FormPage(request, {}))
        ELSE Outcome(Delete(table, request.pk), Redirect(request, success_url))

Methods == {"GET", "POST"}

AuthorCreate ==
    /\ Cardinality(DOMAIN authors) < MaxRows
    /\ \E user \in GateActors, method \in Methods, data \in FormData :
          LET out == CreateView(EditRequest("author_create", user, 0, method, data),
                                authors, "author-detail")
          IN  authors' = out.table /\ response' = out.response
    /\ UNCHANGED <<today, instances, books, genres, session, cleaned, calls>>

AuthorUpdate ==
    /\ \E user \in GateActors, pk \in RequestPks(authors), method \in Methods,
          data \in FormData :
          LET out == UpdateView(EditRequest("author_update", user, pk, method, data),
                                authors, "author-detail")
          IN  authors' = out.table /\ response' = out.response
    /\ UNCHANGED <<today, instances, books, genres, session, cleaned, calls>>

AuthorDelete ==
    /\ \E user \in GateActors, pk \in RequestPks(authors), method \in Methods :
          LET out == DeleteView(EditRequest("author_delete", user, pk, method, InvalidData),
                                authors, "authors")
          IN  authors' = out.table /\ response' = out.response
    /\ UNCHANGED <<today, instances, books, genres, session, cleaned, calls>>

BookCreate ==
    /\ Cardinality(DOMAIN books) < MaxRows
    /\ \E user \in GateActors, method \in Methods, data \in FormData :
          LET out == CreateView(EditRequest("book_create", user, 0, method, data),
                                books, "book-detail")
          IN  books' = out.table /\ response' = out.response
    /\ UNCHANGED <<today, instances, authors, genres, session, cleaned, calls>>

BookUpdate ==
    /\ \E user \in GateActors, pk \in RequestPks(books), method \in Methods,
          data \in FormData :
          LET out == UpdateView(EditRequest("book_update", user, pk, method, data),
                                books, "book-detail")
          IN  books' = out.table /\ response' = out.response
    /\ UNCHANGED <<today, instances, authors, genres, session, cleaned, calls>>

BookDelete ==
    /\ \E user \in GateActors, pk \in RequestPks(books), method \in Methods :
          LET out == DeleteView(EditRequest("book_delete", user, pk, method, InvalidData),
                                books, "books")
          IN  books' = out.table /\ response' = out.response
    /\ UNCHANGED <<today, instances, authors, genres, session, cleaned, calls>>

-----------------------------------------------------------------------------
(* Initial states and specifications *)

InitialAuthors == (1 :> "Alpha")
InitialBooks == (1 :> "Alpha")
InitialGenres == (1 :> "Fantasy") @@ (2 :> "FANTASY") @@ (3 :> "Science Fiction")

\* two copies: one on loan, one available with no due date
TwoInstances == (1 :> Row("o", "u1", 1)) @@ (2 :> Row("a", NoUser, NoDate))

\* four copies, three of them on loan
FourInstances ==
    (1 :> Row("o", "u1", 2)) @@ (2 :> Row("o", "u1", 1)) @@
    (3 :> Row("o", "u2", 1)) @@ (4 :> Row("a", NoUser, NoDate))

NoCalls == [c \in {} |-> Call("done", "s1", 0)]

InitWith(day, table) ==
    /\ today = day
    /\ instances = table
    /\ authors = InitialAuthors
    /\ books = InitialBooks
    /\ genres = InitialGenres
    /\ session = [sid \in Sessions |-> EmptyDict]
    /\ cleaned = [renewal_date |-> NotRun, due_back |-> NotRun]
    /\ response = NoResponse
    /\ calls = NoCalls

\* the validators alone, on every date and every today
InitForms == \E day \in 1..MaxToday : InitWith(day, TwoInstances)
NextForms == CleanRenewalDate \/ CleanDueBack
SpecForms == InitForms /\ [][NextForms]_vars

\* the librarian's renewal of a copy, over several days
InitRenew == InitWith(1, TwoInstances)
NextRenew == RenewGet \/ RenewPost \/ Tick
SpecRenew == InitRenew /\ [][NextRenew]_vars

\* the home page, its calls handled one after another
InitHome == InitWith(1, TwoInstances)
NextHome == Index
SpecHome == InitHome /\ [][NextHome]_vars

\* the views behind PermissionRequiredMixin
InitEdit == InitWith(1, FourInstances)
NextEdit ==
    \/ AuthorCreate \/ AuthorUpdate \/ AuthorDelete
    \/ BookCreate \/ BookUpdate \/ BookDelete
    \/ AllLoanedBooksByUsersListView
SpecEdit == InitEdit /\ [][NextEdit]_vars

\* the rows a BookInstance table is drawn from
NumInstances == 5
InstanceRows ==
    <<Row("a", NoUser, NoDate), Row("r", "u1", NoDate), Row("r", "u2", NoDate)>>
    \o [i \in 1..(MaxDue + 1) |-> Row("o", "u1", IF i > MaxDue THEN NoDate ELSE i)]
    \o [i \in 1..(MaxDue + 1) |-> Row("o", "u2", IF i > MaxDue THEN NoDate ELSE i)]

\* the borrower's own loans, over every table of NumInstances rows (up to a
\* renumbering of the primary keys, which no query reads)
InitLoans ==
    /\ \E pick \in [1..NumInstances -> 1..Len(InstanceRows)] :
          /\ \A pk \in 1..(NumInstances - 1) : pick[pk] <= pick[pk + 1]
          /\ instances = [pk \in 1..NumInstances |-> InstanceRows[pick[pk]]]
    /\ today = 1
    /\ authors = InitialAuthors
    /\ books = InitialBooks
    /\ genres = InitialGenres
    /\ session = [sid \in Sessions |-> EmptyDict]
    /\ cleaned = [renewal_date |-> NotRun, due_back |-> NotRun]
    /\ response = NoResponse
    /\ calls = NoCalls
\* No step of this specification changes the table, so a listing asked for after
\* another one is the listing asked for first: one request per behaviour reaches
\* every state.
NextLoans == response = NoResponse /\ LoanedBooksByUserListView
SpecLoans == InitLoans /\ [][NextLoans]_vars

\* overlapping calls of the home page
InitOverlap ==
    /\ calls \in [1..NumCalls -> {Call("start", sid, 0) : sid \in Sessions}]
    /\ session = [sid \in Sessions |-> EmptyDict]
    /\ today = 1
    /\ instances = TwoInstances
    /\ authors = InitialAuthors
    /\ books = InitialBooks
    /\ genres = InitialGenres
    /\ cleaned = [renewal_date |-> NotRun, due_back |-> NotRun]
    /\ response = NoResponse
NextOverlap ==
    \/ \E c \in DOMAIN calls : IndexRead(c)
    \/ \E c \in DOMAIN calls : IndexSave(c)
SpecOverlap == InitOverlap /\ [][NextOverlap]_vars

-----------------------------------------------------------------------------
(* C1, C9: the validators (SpecForms) *)

ValidatorContract(run) ==
    (run.ran /\ run.data # NoDate) =>
        /\ (run.result.outcome = "ok") <=> (run.at <= run.data /\ run.data <= run.at + 28)
        /\ (run.result.outcome = "ok") => (run.result.value = run.data)
        /\ (run.data < run.at) =>
               (run.result.outcome = "ValidationError" /\ run.result.rule = "past")
        /\ (run.data > run.at + 28) =>
               (run.result.outcome = "ValidationError" /\ run.result.rule = "ahead")

\* C1: for every date D and every today, a renewal validator accepts D and
\* returns it unchanged exactly when today <= D <= today + 28 days; it rejects
\* D < today as a date in the past and D > today + 28 days as too far ahead.
C1_ValidatorAcceptsExactlyTheWindow ==
    /\ ValidatorContract(cleaned.due_back)
    /\ ValidatorContract(cleaned.renewal_date)

\* today + 28 days was validated and accepted
C1_Witness ==
    /\ cleaned.due_back.ran
    /\ cleaned.due_back.data = cleaned.due_back.at + 28
    /\ cleaned.due_back.result.outcome = "ok"
    /\ cleaned.due_back.result.value = cleaned.due_back.data

\* C9: on the same date and the same today, clean_renewal_date and
\* clean_due_back both accept and return the date, or both reject it under the
\* same rule.
C9_BothValidatorsAgree ==
    (/\ cleaned.renewal_date.ran
     /\ cleaned.due_back.ran
     /\ cleaned.renewal_date.data = cleaned.due_back.data
     /\ cleaned.renewal_date.at = cleaned.due_back.at)
    => /\ cleaned.renewal_date.result.outcome = cleaned.due_back.result.outcome
       /\ cleaned.renewal_date.result.value = cleaned.due_back.result.value
       /\ cleaned.renewal_date.result.rule = cleaned.due_back.result.rule

\* both validators rejected today + 29 days as too far ahead
C9_Witness ==
    /\ cleaned.renewal_date.ran
    /\ cleaned.due_back.ran
    /\ cleaned.renewal_date.data = cleaned.due_back.data
    /\ cleaned.renewal_date.at = cleaned.due_back.at
    /\ cleaned.due_back.data = cleaned.due_back.at + 29
    /\ cleaned.due_back.result.rule = "ahead"
    /\ cleaned.renewal_date.result.rule = "ahead"

-----------------------------------------------------------------------------
(* C2, C3, C8: the renewal workflow (SpecRenew) *)

Permitted(user) == user.is_authenticated /\ CanMarkReturned \in user.perms

InWindow(date, now) == now <= date /\ date <= now + 28

\* C2: every POST to the renewal view by a permitted actor on an existing
\* BookInstance, whatever was submitted (a blank or missing date included),
\* either (a) passes validation, sets that instance's due-back date to the
\* submitted date, changes no other instance and redirects to the all-loans
\* view, or (b) fails validation, answers with the form holding the rejected
\* input and its error message(s), and changes no instance.
C2_RenewPostValidOrRejected ==
    [][\A user \in GateActors, pk \in DOMAIN instances, data \in RenewInputs :
          (Permitted(user) /\ renew_book_librarian(user, pk, "POST", data)) =>
             \/ /\ data.kind = "date"
                /\ InWindow(data.date, today)
                /\ instances' = [instances EXCEPT ![pk].due_back = data.date]
                /\ response'.status = "redirect"
                /\ response'.location.to = "all-borrowed"
             \/ /\ ~(data.kind = "date" /\ InWindow(data.date, today))
                /\ response'.status = "ok"
                /\ response'.body.kind = "book_renew_librarian"
                /\ response'.body.form.data = data
                /\ response'.body.form.errors # {}
                /\ instances' = instances]_vars

RenewWrote ==
    /\ response.request.view = "renew_book_librarian"
    /\ response.status = "redirect"
    /\ response.location.to = "all-borrowed"

\* C3: whatever renewal requests came before, a due-back date written by the
\* renewal view lies between today and today + 28 days, today being the date
\* of the request that wrote it; and the view changes a due-back date in no
\* other way.
C3_RenewedDueBackInWindow ==
    /\ [](RenewWrote =>
            InWindow(instances[response.request.pk].due_back, response.request.at))
    /\ [][\A pk \in DOMAIN instances :
             instances'[pk].due_back # instances[pk].due_back =>
                /\ today' = today
                /\ InWindow(instances'[pk].due_back, today)]_vars

\* after the date moved on, a renewal wrote today + 28 days
C3_Witness ==
    /\ RenewWrote
    /\ response.request.at > 1
    /\ instances[response.request.pk].due_back = response.request.at + 28

\* C8: a GET of the renewal view by a permitted actor on an existing
\* BookInstance proposes today + 21 days and changes no BookInstance.
C8_RenewGetProposesThreeWeeks ==
    [][\A user \in GateActors, pk \in DOMAIN instances :
          (Permitted(user) /\ renew_book_librarian(user, pk, "GET", Blank)) =>
             /\ response'.status = "ok"
             /\ response'.body.form.initial = today + 21
             /\ response'.body.proposed_renewal_date = today + 21
             /\ ~response'.body.form.bound
             /\ instances' = instances]_vars

\* the form was shown for an existing instance with today + 21 days proposed
C8_Witness ==
    /\ response.request.view = "renew_book_librarian"
    /\ response.request.method = "GET"
    /\ response.request.pk \in DOMAIN instances
    /\ Permitted(response.request.user)
    /\ response.status = "ok"
    /\ response.body.form.initial = response.request.at + 21

-----------------------------------------------------------------------------
(* C4, C6: the home page (SpecHome) *)

IndexAnswered == response.request.view = "index"

\* C4: the home view checks authentication before authorization: an
\* unauthenticated actor is redirected to login with the destination
\* remembered and gets no data; an authenticated actor without
\* can_mark_returned gets PermissionDenied, not a redirect; only an
\* authenticated actor holding can_mark_returned gets the summary.
C4_HomeLoginBeforePermission ==
    IndexAnswered =>
        LET user == response.request.user
        IN  /\ ~user.is_authenticated =>
                  /\ response.status = "redirect"
                  /\ response.location = [to |-> "login", next |-> "index"]
                  /\ response.body = NoBody
            /\ (user.is_authenticated /\ CanMarkReturned \notin user.perms) =>
                  /\ response.status = "forbidden"
                  /\ response.body = NoBody
            /\ (response.status = "ok" \/ response.body # NoBody) =>
                  (user.is_authenticated /\ CanMarkReturned \in user.perms)
            /\ (user.is_authenticated /\ CanMarkReturned \in user.perms) =>
                  (response.status = "ok" /\ response.body.kind = "index")

\* an actor who is not logged in asked for the home page
C4_Witness ==
    /\ IndexAnswered
    /\ ~response.request.user.is_authenticated
    /\ response.status = "redirect"
    /\ response.location.to = "login"

Stored(dicts, sid) ==
    IF "num_visits" \in DOMAIN dicts[sid] THEN dicts[sid]["num_visits"] ELSE 0

\* C6: with the home-view calls handled one after another, a session's
\* num_visits starts at 0 and never decreases; a call that passes the gate
\* reports the stored value and stores that value plus 1 (so the k-th such call
\* reports k - 1 and n calls leave n); a call refused by the gate, or made in
\* another session, leaves it as it was.
C6_VisitsCountGatedCalls ==
    /\ \A sid \in Sessions : Stored(session, sid) = 0
    /\ [][\A sid \in Sessions :
             /\ Stored(session', sid) >= Stored(session, sid)
             /\ (\E user \in GateActors : Permitted(user) /\ index(user, sid)) =>
                   /\ Stored(session', sid) = Stored(session, sid) + 1
                   /\ response'.body.num_visits = Stored(session, sid)
             /\ ~(\E user \in GateActors : Permitted(user) /\ index(user, sid)) =>
                   Stored(session', sid) = Stored(session, sid)]_vars

\* the second permitted call of session s1 reported 1 and left 2; s2 is untouched
C6_Witness ==
    /\ IndexAnswered
    /\ response.request.session_key = "s1"
    /\ response.status = "ok"
    /\ response.body.num_visits = 1
    /\ Stored(session, "s1") = 2
    /\ Stored(session, "s2") = 0

-----------------------------------------------------------------------------
(* C5: the views that require two permissions (SpecEdit) *)

TwoPermissionViews ==
    {"author_create", "author_update", "author_delete",
     "book_create", "book_update", "book_delete", "all-borrowed"}

HoldsBoth(user) == CanMarkReturned \in user.perms /\ CanEdit \in user.perms

\* C5: createAuthor .. deleteBook and listAllActiveLoans go ahead only for an
\* actor holding both can_mark_returned and can_edit: an authenticated actor
\* holding none or one of them gets PermissionDenied, an unauthenticated one is
\* sent to login, and in both cases no table changes.
C5_BothPermissionsRequired ==
    [][LET request == response'.request
       IN  (request.view \in TwoPermissionViews /\ ~HoldsBoth(request.user)) =>
              /\ IF request.user.is_authenticated
                 THEN response'.status = "forbidden"
                 ELSE /\ response'.status = "redirect"
                      /\ response'.location.to = "login"
              /\ response'.body = NoBody
              /\ UNCHANGED <<authors, books, genres, instances>>]_vars

\* an actor holding only can_mark_returned posted the deletion of an author
C5_Witness ==
    /\ response.request.view = "author_delete"
    /\ response.request.method = "POST"
    /\ response.request.user.perms = {CanMarkReturned}
    /\ response.request.pk \in DOMAIN authors
    /\ response.status = "forbidden"

-----------------------------------------------------------------------------
(* C7: the borrower's own loans (SpecLoans) *)

MyLoansAnswered ==
    /\ response.request.view = "my-borrowed"
    /\ response.request.user.is_authenticated

OnLoanTo(user) ==
    {pk \in DOMAIN instances :
        instances[pk].borrower = user.name /\ instances[pk].status = "o"}

Range(seq) == {seq[i] : i \in 1..Len(seq)}

\* C7: for every BookInstance table and every authenticated actor U, the
\* listing of U's loans holds exactly the instances with borrower U and status
\* on-loan, each once, in ascending due-back order (for the instances that
\* have a date), and a page holds the next 3 of them at most, the pages
\* together leaving none out.
C7_MyLoansFilteredOrderedPaged ==
    MyLoansAnswered =>
        LET expected == OnLoanTo(response.request.user)
            number == response.request.page
            pages == IF expected = {} THEN 1 ELSE (Cardinality(expected) + 2) \div 3
        IN  IF response.status = "ok"
            THEN LET listing == response.body.paginator.object_list
                     page == response.body.object_list
                 IN  /\ Range(listing) = expected
                     /\ Len(listing) = Cardinality(expected)
                     /\ \A i \in 1..Len(listing), j \in 1..Len(listing) :
                           (/\ i < j
                            /\ instances[listing[i]].due_back # NoDate
                            /\ instances[listing[j]].due_back # NoDate)
                           => instances[listing[i]].due_back
                                 <= instances[listing[j]].due_back
                     /\ number \in 1..pages
                     /\ Len(page) <= 3
                     /\ Len(page) = IF number < pages
                                    THEN 3
                                    ELSE Len(listing) - 3 * (pages - 1)
                     /\ \A i \in 1..Len(page) : page[i] = listing[3 * (number - 1) + i]
            ELSE /\ response.status = "not_found"
                 /\ number \notin 1..pages

\* the second page of four loans, two of them due on the same day
C7_Witness ==
    /\ MyLoansAnswered
    /\ response.status = "ok"
    /\ response.request.page = 2
    /\ Len(response.body.paginator.object_list) = 4
    /\ Len(response.body.object_list) = 1
    /\ \E pk \in DOMAIN instances :
          /\ instances[pk].borrower # response.request.user.name
          /\ instances[pk].status = "o"
    /\ \E i, j \in DOMAIN instances :
          /\ i # j
          /\ {i, j} \subseteq OnLoanTo(response.request.user)
          /\ instances[i].due_back = instances[j].due_back
          /\ instances[i].due_back # NoDate

-----------------------------------------------------------------------------
(* C10: overlapping calls of the home page (SpecOverlap) *)

AllCallsDone == \A c \in DOMAIN calls : calls[c].pc = "done"

CallsOf(sid) == {c \in DOMAIN calls : calls[c].session_key = sid}

\* C10: when home-view calls of one session overlap, no increment is lost:
\* once all of them have completed, the stored counter is its starting value
\* (0) plus the number of calls made in that session.
C10_NoLostIncrement ==
    AllCallsDone =>
        \A sid \in Sessions : Stored(session, sid) = Cardinality(CallsOf(sid))

====
